---------------------------- MODULE Spec2Model ----------------------------
(***************************************************************************)
(* Field engine (common/gf12.rs: GF(2^12); gf.rs: GF(2^13)), polynomial    *)
(* evaluation (mceliece348864/root.rs) and support generation              *)
(* (common/internals348864/benes.rs) of classic-mceliece-rust.             *)
(*                                                                         *)
(* A Gf value is a u16, kept as an integer in 0..2^16-1.  A u32 or u64     *)
(* temporary whose value stays below 2^31 wherever the code computes it    *)
(* (gf_mul, gf12::gf_sq, bitrev, load_gf) is kept as an integer: TLC       *)
(* reports an overflow of its 32-bit integers as an error, so no wrap is    *)
(* hidden.  The temporaries that need more (the wrapping subtraction of    *)
(* gf_iszero, the fused squarings of gf.rs) are kept as words: little-     *)
(* endian sequences of 16-bit limbs, 2 limbs for u32 and 4 for u64, with   *)
(* shifts, sums and products that wrap at the width of the word.           *)
(***************************************************************************)
EXTENDS Integers, Sequences, FiniteSets, TLC

(***************************************************************************)
(* Bitwise operations on non-negative integers.                            *)
(***************************************************************************)
\* XOR and AND of two 4-bit values x, y, tabulated at index 16 * x + y
NibXor == [k \in 0..255 |->
             ((((k \div 16) % 2) + (k % 2)) % 2)
           + ((((k \div 32) % 2) + ((k \div 2) % 2)) % 2) * 2
           + ((((k \div 64) % 2) + ((k \div 4) % 2)) % 2) * 4
           + ((((k \div 128) % 2) + ((k \div 8) % 2)) % 2) * 8]

NibAnd == [k \in 0..255 |->
             (((k \div 16) % 2) * (k % 2))
           + (((k \div 32) % 2) * ((k \div 2) % 2)) * 2
           + (((k \div 64) % 2) * ((k \div 4) % 2)) * 4
           + (((k \div 128) % 2) * ((k \div 8) % 2)) * 8]

\* x ^ y
RECURSIVE Xor(_, _)
Xor(x, y) ==
    IF x = 0 THEN y
    ELSE IF y = 0 THEN x
    ELSE NibXor[((x % 16) * 16) + (y % 16)] + (16 * Xor(x \div 16, y \div 16))

\* x & y
RECURSIVE And(_, _)
And(x, y) ==
    IF x = 0 \/ y = 0 THEN 0
    ELSE NibAnd[((x % 16) * 16) + (y % 16)] + (16 * And(x \div 16, y \div 16))

\* x | y
Or(x, y) == Xor(x, y) + And(x, y)

\* x << k and x >> k where no bit is shifted out of the type
Shl(x, k) == x * 2^k
Shr(x, k) == x \div 2^k

(***************************************************************************)
(* Call by value: the arguments are evaluated before the body of F is      *)
(* entered, as in the Rust code.                                           *)
(***************************************************************************)
Call1(F(_), a) == CHOOSE r \in {F(v) : v \in {a}} : TRUE
Call2(F(_, _), a, b) == CHOOSE r \in {F(v, w) : v \in {a}, w \in {b}} : TRUE
Call3(F(_, _, _), a, b, c) ==
    CHOOSE r \in {F(v, w, z) : v \in {a}, w \in {b}, z \in {c}} : TRUE

(***************************************************************************)
(* Words: little-endian sequences of 16-bit limbs.                         *)
(***************************************************************************)
LIMB == 2^16

\* `x as u32`, `x as u64` for a u16 x
U32(x) == <<x, 0>>
U64(x) == <<x, 0, 0, 0>>

\* a 64-bit literal from its 16-bit groups, most significant first
Lit64(h3, h2, h1, h0) == <<h0, h1, h2, h3>>

\* `w as u16`
AsU16(w) == w[1]

Limb(w, j) == IF j >= 1 /\ j <= Len(w) THEN w[j] ELSE 0

XorW(a, b) ==
    IF Len(a) = 2
    THEN <<Xor(a[1], b[1]), Xor(a[2], b[2])>>
    ELSE <<Xor(a[1], b[1]), Xor(a[2], b[2]), Xor(a[3], b[3]), Xor(a[4], b[4])>>

AndW(a, b) ==
    IF Len(a) = 2
    THEN <<And(a[1], b[1]), And(a[2], b[2])>>
    ELSE <<And(a[1], b[1]), And(a[2], b[2]), And(a[3], b[3]), And(a[4], b[4])>>

OrW(a, b) ==
    IF Len(a) = 2
    THEN <<Or(a[1], b[1]), Or(a[2], b[2])>>
    ELSE <<Or(a[1], b[1]), Or(a[2], b[2]), Or(a[3], b[3]), Or(a[4], b[4])>>

\* limb i of a << (16 * q + r)
ShlLimb(a, i, q, r) ==
    ((Limb(a, i - q) % 2^(16 - r)) * 2^r) + (Limb(a, i - q - 1) \div 2^(16 - r))

\* a << k, bits shifted out of the word are lost
ShlW(a, k) ==
    IF Len(a) = 2
    THEN <<ShlLimb(a, 1, k \div 16, k % 16), ShlLimb(a, 2, k \div 16, k % 16)>>
    ELSE <<ShlLimb(a, 1, k \div 16, k % 16), ShlLimb(a, 2, k \div 16, k % 16),
           ShlLimb(a, 3, k \div 16, k % 16), ShlLimb(a, 4, k \div 16, k % 16)>>

\* limb i of a >> (16 * q + r)
ShrLimb(a, i, q, r) ==
    (Limb(a, i + q) \div 2^r) + ((Limb(a, i + q + 1) % 2^r) * 2^(16 - r))

\* a >> k
ShrW(a, k) ==
    IF Len(a) = 2
    THEN <<ShrLimb(a, 1, k \div 16, k % 16), ShrLimb(a, 2, k \div 16, k % 16)>>
    ELSE <<ShrLimb(a, 1, k \div 16, k % 16), ShrLimb(a, 2, k \div 16, k % 16),
           ShrLimb(a, 3, k \div 16, k % 16), ShrLimb(a, 4, k \div 16, k % 16)>>

\* a + b, wrapping at the width of the word
RECURSIVE AddLimbs(_, _, _, _)
AddLimbs(a, b, i, carry) ==
    IF i > Len(a) THEN <<>>
    ELSE <<(a[i] + b[i] + carry) % LIMB>>
         \o AddLimbs(a, b, i + 1, (a[i] + b[i] + carry) \div LIMB)

AddW(a, b) == AddLimbs(a, b, 1, 0)

\* a - b, wrapping at the width of the word (wrapping_sub)
RECURSIVE SubLimbs(_, _, _, _)
SubLimbs(a, b, i, borrow) ==
    IF i > Len(a) THEN <<>>
    ELSE <<(a[i] - b[i] - borrow) % LIMB>>
         \o SubLimbs(a, b, i + 1, IF a[i] - b[i] - borrow < 0 THEN 1 ELSE 0)

SubW(a, b) == SubLimbs(a, b, 1, 0)

ZeroW(a) == IF Len(a) = 2 THEN <<0, 0>> ELSE <<0, 0, 0, 0>>

\* a * b, wrapping at the width of the word: the sum of the copies of a
\* shifted to the set bits of b
RECURSIVE MulBits(_, _, _, _)
MulBits(a, b, k, acc) ==
    IF k >= 16 * Len(a) THEN acc
    ELSE IF b[(k \div 16) + 1] = 0 THEN MulBits(a, b, k + 16 - (k % 16), acc)
    ELSE IF (b[(k \div 16) + 1] \div 2^(k % 16)) % 2 = 1
         THEN MulBits(a, b, k + 1, AddW(acc, ShlW(a, k)))
         ELSE MulBits(a, b, k + 1, acc)

MulW(a, b) == MulBits(a, b, 0, ZeroW(a))

(***************************************************************************)
(* common/gf12.rs: GF(2^12), field polynomial x^12 + x^3 + 1.              *)
(***************************************************************************)
GFBITS12 == 12
GFMASK12 == 2^GFBITS12 - 1

\* load_gf: two bytes, little-endian, masked to the field width
load_gf(src) == And(Or(Shl(src[2], 8), src[1]), GFMASK12)

\* gf_iszero: ((a as u32) - 1) >> 19, truncated to u16
gf12_gf_iszero(a) == AsU16(ShrW(SubW(U32(a), U32(1)), 19))

\* gf_add: in0 ^ in1
gf12_gf_add(in0, in1) == Xor(in0, in1)

\* one iteration of the accumulation loop: tmp ^= t0 * (t1 & (1 << i))
gf12_mul_iter(s, t0, t1, i) ==
    [tmp |-> Xor(s.tmp, t0 * And(t1, Shl(1, i))), iters |-> s.iters + 1,
     passes |-> s.passes]

\* for i in 1..GFBITS
RECURSIVE gf12_mul_loop(_, _, _, _)
gf12_mul_loop(s, t0, t1, i) ==
    IF i >= GFBITS12 THEN s
    ELSE gf12_mul_loop(gf12_mul_iter(s, t0, t1, i), t0, t1, i + 1)

\* gf12_fold with the first shift off by one
gf12_fold_shift8(tmp, t) == Xor(Xor(tmp, Shr(t, 8)), Shr(t, 12))

\* tmp ^= t >> 9; tmp ^= t >> 12
gf12_fold(tmp, t) == Xor(Xor(tmp, Shr(t, 9)), Shr(t, 12))

\* one reduction pass: t = tmp & mask, then the fold
gf12_reduce(s, mask) ==
    [tmp |-> gf12_fold(s.tmp, And(s.tmp, mask)), iters |-> s.iters,
     passes |-> s.passes + 1]

\* gf_mul, with the count of the loop iterations and reduction passes it ran
gf12_gf_mul_run(in0, in1) ==
    gf12_reduce(
      gf12_reduce(
        gf12_mul_loop([tmp |-> in0 * And(in1, 1), iters |-> 0, passes |-> 0],
                      in0, in1, 1),
        \H7FC000),
      \H3000)

\* the value gf_mul returns: tmp as u16 & GFMASK
gf12_gf_mul(in0, in1) ==
    And(Call2(gf12_gf_mul_run, in0, in1).tmp % LIMB, GFMASK12)

\* x = (x | (x << k)) & b
gf12_spread(x, k, b) == And(Or(x, Shl(x, k)), b)

\* gf_sq: spread the bits of in0 (u32), then the two reduction passes
gf12_gf_sq(in0) ==
    LET x4 == gf12_spread(gf12_spread(gf12_spread(gf12_spread(
                  in0, 8, \H00FF00FF), 4, \H0F0F0F0F), 2, \H33333333), 1, \H55555555)
        x5 == gf12_fold(x4, And(x4, \H7FC000))
        x6 == gf12_fold(x5, And(x5, \H3000))
    IN  And(x6 % LIMB, GFMASK12)

\* the statements `out = gf_sq(out)` and `out = gf_mul(out, m)` of gf_inv,
\* counted as they execute
gf12_inv_sq(s) == [out |-> Call1(gf12_gf_sq, s.out), nsq |-> s.nsq + 1, nmul |-> s.nmul]
gf12_inv_mul(s, m) == [out |-> Call2(gf12_gf_mul, s.out, m), nsq |-> s.nsq, nmul |-> s.nmul + 1]

\* gf12_inv_tail with three squarings where the chain has four
gf12_inv_tail_short(s2, tmp_11, tmp_1111, in0) ==
    gf12_inv_sq(
      gf12_inv_mul(
        gf12_inv_sq(
          gf12_inv_mul(
            gf12_inv_sq(gf12_inv_sq(
              gf12_inv_mul(
                gf12_inv_sq(gf12_inv_sq(gf12_inv_sq(s2))),
                tmp_1111))),
            tmp_11)),
        in0))

\* the chain of gf_inv after tmp_11 and tmp_1111 are known
gf12_inv_tail(s2, tmp_11, tmp_1111, in0) ==
    gf12_inv_sq(
      gf12_inv_mul(
        gf12_inv_sq(
          gf12_inv_mul(
            gf12_inv_sq(gf12_inv_sq(
              gf12_inv_mul(
                gf12_inv_sq(gf12_inv_sq(gf12_inv_sq(gf12_inv_sq(s2)))),
                tmp_1111))),
            tmp_11)),
        in0))

gf12_inv_1111(s1, in0) ==
    gf12_inv_tail(gf12_inv_mul(gf12_inv_sq(gf12_inv_sq(s1)), s1.out),
                  s1.out,
                  gf12_inv_mul(gf12_inv_sq(gf12_inv_sq(s1)), s1.out).out,
                  in0)

\* gf_inv: in0^(2^12 - 2) by the fixed chain of squarings and multiplications,
\* with the count of the squarings and multiplications it ran
gf12_gf_inv_run(in0) ==
    gf12_inv_1111(
      gf12_inv_mul(gf12_inv_sq([out |-> in0, nsq |-> 0, nmul |-> 0]), in0), in0)

gf12_gf_inv(in0) == gf12_gf_inv_run(in0).out

\* gf_frac with numerator and denominator exchanged
gf12_gf_frac_run_swapped(den, num) == gf12_inv_mul(gf12_gf_inv_run(num), den)

\* gf_frac: gf_mul(gf_inv(den), num), with the counts of gf_inv and of the
\* final multiplication
gf12_gf_frac_run(den, num) == gf12_inv_mul(gf12_gf_inv_run(den), num)

gf12_gf_frac(den, num) == gf12_gf_frac_run(den, num).out

\* one swap of bitrev: ((a & lo) << k) | ((a & hi) >> k)
bitrev_swap(a, lo, hi, k) == Or(Shl(And(a, lo), k), Shr(And(a, hi), k))

\* bitrev: reverse the 16 bits of a, then drop the low 4
bitrev(a) ==
    Shr(bitrev_swap(bitrev_swap(bitrev_swap(bitrev_swap(
          a, \H00FF, \HFF00, 8), \H0F0F, \HF0F0, 4), \H3333, \HCCCC, 2),
          \H5555, \HAAAA, 1), 4)

(***************************************************************************)
(* gf.rs: GF(2^13), field polynomial x^13 + x^4 + x^3 + x + 1.             *)
(***************************************************************************)
\* GFBITS is imported from crate::params; the masks of gf_mul (bits 13..24 of
\* the product) and the tests (gf_iszero(0) = 8191 = GFMASK) fix it at 13
GFBITS == 13
GFMASK == 2^GFBITS - 1

\* gf_iszero with the shift off by one
gf_iszero_shift20(a) == AsU16(ShrW(SubW(U32(a), U32(1)), 20))

\* gf_iszero: ((a as u32) - 1) >> 19, truncated to u16
gf_iszero(a) == AsU16(ShrW(SubW(U32(a), U32(1)), 19))

\* gf_add: in0 ^ in1
gf_add(in0, in1) == Xor(in0, in1)

\* gf_mul_iter that skips the iteration when bit i of t1 is clear
gf_mul_iter_skip(s, t0, t1, i) ==
    IF And(t1, Shl(1, i)) = 0 THEN s
    ELSE [tmp |-> Xor(s.tmp, t0 * And(t1, Shl(1, i))), iters |-> s.iters + 1,
          passes |-> s.passes]

\* one iteration of the accumulation loop: tmp ^= t0 * (t1 & (1 << i))
gf_mul_iter(s, t0, t1, i) ==
    [tmp |-> Xor(s.tmp, t0 * And(t1, Shl(1, i))), iters |-> s.iters + 1,
     passes |-> s.passes]

\* for i in 1..GFBITS
RECURSIVE gf_mul_loop(_, _, _, _)
gf_mul_loop(s, t0, t1, i) ==
    IF i >= GFBITS THEN s
    ELSE gf_mul_loop(gf_mul_iter(s, t0, t1, i), t0, t1, i + 1)

\* tmp ^= (t >> 9) ^ (t >> 10) ^ (t >> 12) ^ (t >> 13)
gf_fold(tmp, t) ==
    Xor(tmp, Xor(Xor(Xor(Shr(t, 9), Shr(t, 10)), Shr(t, 12)), Shr(t, 13)))

\* one reduction pass: t = tmp & mask, then the fold
gf_reduce(s, mask) ==
    [tmp |-> gf_fold(s.tmp, And(s.tmp, mask)), iters |-> s.iters,
     passes |-> s.passes + 1]

\* gf_mul, with the count of the loop iterations and reduction passes it ran
gf_mul_run(in0, in1) ==
    gf_reduce(
      gf_reduce(
        gf_mul_loop([tmp |-> in0 * And(in1, 1), iters |-> 0, passes |-> 0],
                    in0, in1, 1),
        \H1FF0000),
      \H000E000)

\* gf_mul without the final mask
gf_mul_unmasked(in0, in1) == Call2(gf_mul_run, in0, in1).tmp % LIMB

\* the value gf_mul returns: (tmp & GFMASK) as u16
gf_mul(in0, in1) == And(Call2(gf_mul_run, in0, in1).tmp, GFMASK) % LIMB

\* the fold on a u64 word: x ^= (t >> 9) ^ (t >> 10) ^ (t >> 12) ^ (t >> 13)
gf_foldW(x, t) ==
    XorW(x, XorW(XorW(XorW(ShrW(t, 9), ShrW(t, 10)), ShrW(t, 12)), ShrW(t, 13)))

\* for i in 0..len(M): t = x & M[i]; x ^= fold(t)
RECURSIVE gf_reduceW(_, _, _)
gf_reduceW(x, M, i) ==
    IF i > Len(M) THEN x
    ELSE gf_reduceW(Call2(gf_foldW, x, AndW(x, M[i])), M, i + 1)

\* x = (x | (x << k)) & b
gf_spreadW(x, k, b) == AndW(OrW(x, ShlW(x, k)), b)

\* the masks B and M of gf_sq2
sq2_B == <<Lit64(\H1111, \H1111, \H1111, \H1111),
           Lit64(\H0303, \H0303, \H0303, \H0303),
           Lit64(\H000F, \H000F, \H000F, \H000F),
           Lit64(\H0000, \H00FF, \H0000, \H00FF)>>

sq2_M == <<Lit64(\H0001, \HFF00, \H0000, \H0000),
           Lit64(\H0000, \H00FF, \H8000, \H0000),
           Lit64(\H0000, \H0000, \H7FC0, \H0000),
           Lit64(\H0000, \H0000, \H003F, \HE000)>>

\* gf_sq2: (input^2)^2
gf_sq2(input) ==
    AsU16(AndW(
      gf_reduceW(
        gf_spreadW(gf_spreadW(gf_spreadW(gf_spreadW(
            U64(input), 24, sq2_B[4]), 12, sq2_B[3]), 6, sq2_B[2]), 3, sq2_B[1]),
        sq2_M, 1),
      U64(GFMASK)))

\* (t1 * (t0 & mask)) << k
gf_term(t1, t0, mask, k) == ShlW(MulW(t1, AndW(t0, mask)), k)

sqmul_M == <<Lit64(\H0000, \H001F, \HF000, \H0000),
             Lit64(\H0000, \H0000, \H0FF8, \H0000),
             Lit64(\H0000, \H0000, \H0007, \HE000)>>

\* gf_sqmul_acc with the last term shifted by 4 where the code shifts by 5
gf_sqmul_acc_shift4(x, t0, t1) ==
    XorW(XorW(XorW(XorW(XorW(XorW(x,
      gf_term(t1, t0, Lit64(0, 0, \H0000, \H4001), 0)),
      gf_term(t1, t0, Lit64(0, 0, \H0000, \H8002), 1)),
      gf_term(t1, t0, Lit64(0, 0, \H0001, \H0004), 2)),
      gf_term(t1, t0, Lit64(0, 0, \H0002, \H0008), 3)),
      gf_term(t1, t0, Lit64(0, 0, \H0004, \H0010), 4)),
      gf_term(t1, t0, Lit64(0, 0, \H0008, \H0020), 4))

\* the accumulation of gf_sqmul after `t0 ^= t0 << 7`
gf_sqmul_acc(x, t0, t1) ==
    XorW(XorW(XorW(XorW(XorW(XorW(x,
      gf_term(t1, t0, Lit64(0, 0, \H0000, \H4001), 0)),
      gf_term(t1, t0, Lit64(0, 0, \H0000, \H8002), 1)),
      gf_term(t1, t0, Lit64(0, 0, \H0001, \H0004), 2)),
      gf_term(t1, t0, Lit64(0, 0, \H0002, \H0008), 3)),
      gf_term(t1, t0, Lit64(0, 0, \H0004, \H0010), 4)),
      gf_term(t1, t0, Lit64(0, 0, \H0008, \H0020), 5))

\* gf_sqmul: (input^2) * m
gf_sqmul(input, m) ==
    AsU16(AndW(
      gf_reduceW(
        Call3(gf_sqmul_acc,
              MulW(ShlW(U64(m), 6), AndW(U64(input), ShlW(U64(1), 6))),
              XorW(U64(input), ShlW(U64(input), 7)),
              U64(m)),
        sqmul_M, 1),
      U64(GFMASK)))

sq2mul_M == <<Lit64(\H1FF0, \H0000, \H0000, \H0000),
              Lit64(\H000F, \HF800, \H0000, \H0000),
              Lit64(\H0000, \H07FC, \H0000, \H0000),
              Lit64(\H0000, \H0003, \HFE00, \H0000),
              Lit64(\H0000, \H0000, \H01FE, \H0000),
              Lit64(\H0000, \H0000, \H0001, \HE000)>>

\* the accumulation of gf_sq2mul after `t0 ^= t0 << 21`
gf_sq2mul_acc(x, t0, t1) ==
    XorW(XorW(XorW(XorW(XorW(XorW(x,
      gf_term(t1, t0, Lit64(0, \H0000, \H1000, \H0001), 0)),
      gf_term(t1, t0, Lit64(0, \H0000, \H2000, \H0002), 3)),
      gf_term(t1, t0, Lit64(0, \H0000, \H4000, \H0004), 6)),
      gf_term(t1, t0, Lit64(0, \H0000, \H8000, \H0008), 9)),
      gf_term(t1, t0, Lit64(0, \H0001, \H0000, \H0010), 12)),
      gf_term(t1, t0, Lit64(0, \H0002, \H0000, \H0020), 15))

\* gf_sq2mul: ((input^2)^2) * m
gf_sq2mul(input, m) ==
    AsU16(AndW(
      gf_reduceW(
        Call3(gf_sq2mul_acc,
              MulW(ShlW(U64(m), 18), AndW(U64(input), ShlW(U64(1), 6))),
              XorW(U64(input), ShlW(U64(input), 21)),
              U64(m)),
        sq2mul_M, 1),
      U64(GFMASK)))

\* the statements of gf_frac, counted as they execute
gf_frac_sq2(s) ==
    [out |-> Call1(gf_sq2, s.out), nsq2 |-> s.nsq2 + 1, nmul |-> s.nmul]
gf_frac_sq2mul(s, m) ==
    [out |-> Call2(gf_sq2mul, s.out, m), nsq2 |-> s.nsq2, nmul |-> s.nmul + 1]
gf_frac_sqmul(s, m) ==
    [out |-> Call2(gf_sqmul, s.out, m), nsq2 |-> s.nsq2, nmul |-> s.nmul + 1]

\* the chain of gf_frac once tmp_1111 is known
gf_frac_tail(s, tmp_1111, num) ==
    gf_frac_sqmul(
      gf_frac_sq2mul(
        gf_frac_sq2(gf_frac_sq2mul(gf_frac_sq2(s), tmp_1111)),
        tmp_1111),
      num)

\* tmp_1111 = gf_sq2mul(tmp_11, tmp_11)
gf_frac_sq2mul_self(s) == gf_frac_sq2mul(s, s.out)

gf_frac_1111(s, num) == gf_frac_tail(s, s.out, num)

\* gf_frac: den^(2^13 - 2) * num by the fixed chain of fused squarings, with
\* the count of the gf_sq2 calls and of the fused multiplications it ran
gf_frac_run(den, num) ==
    Call2(gf_frac_1111,
          gf_frac_sq2mul_self(gf_frac_sqmul([out |-> den, nsq2 |-> 0, nmul |-> 0], den)),
          num)

gf_frac(den, num) == gf_frac_run(den, num).out

\* gf_inv: gf_frac(den, 1 as Gf)
gf_inv_run(den) == gf_frac_run(den, 1)

gf_inv(den) == gf_inv_run(den).out

(***************************************************************************)
(* The program as a state machine.  A behaviour is one call of one entry   *)
(* point: fn names it, pc is its position.                                 *)
(*   a field function is called with in0 (and in1) and returns ret;        *)
(*   root(out, f, l) runs its loop over i;                                 *)
(*   GF_mul(out, in0, in1) runs its loops over i, j with the buffer prod;  *)
(*   support_gen(s, c) fills the bit-sliced table l, permutes its planes   *)
(*   j and extracts s[i].                                                  *)
(* cnt counts the operations the latest call of a field function or of     *)
(* eval executed.  A variable the entry point does not have is 0.          *)
(***************************************************************************)
VARIABLES fn, pc, in0, in1, ret, cnt, f, l, out, prod, s, c, i, j

vars == <<fn, pc, in0, in1, ret, cnt, f, l, out, prod, s, c, i, j>>

\* the variables of root, GF_mul and support_gen
arrays == <<f, l, out, prod, s, c, i, j>>

NoArrays ==
    /\ f = 0 /\ l = 0 /\ out = 0 /\ prod = 0 /\ s = 0 /\ c = 0 /\ i = 0 /\ j = 0

\* number of pseudo-random u16 samples drawn besides the fixed ones
NumSamples == 10

Sample(k) == ((k * 40503) + 12345) % LIMB

\* u16 values of the unit tests of gf12.rs and gf.rs, and the powers of two
Special16 ==
    {0, 1, 2, 3, 4, 5, 6, 8, 9, 10, 19, 37, 125, 550, 1024, 1025, 4091, 4095,
     4096, 4591, 5501, 6733, 8191, 8192, \H0F0F, \HF0F0, 65535}
    \cup {2^k : k \in 0..15}

Wide16 == {Sample(k) : k \in 1..NumSamples}

\* first operands: the fixed values, the samples, and the samples reduced to
\* 13 and to 12 bits
Operands0 ==
    Special16 \cup Wide16 \cup {w % 2^GFBITS : w \in Wide16}
              \cup {w % 2^GFBITS12 : w \in Wide16}

\* second operands
Operands1 ==
    {0, 1, 2, 3, 6, 19, 4095, 4096, 8191, \H0F0F, 65535}
    \cup {Sample(k) % 2^GFBITS12 : k \in 1..3}
    \cup {Sample(k) % 2^GFBITS : k \in 4..6}

UnaryFns == {"gf12_gf_iszero", "gf12_gf_sq", "gf12_gf_inv", "bitrev",
             "gf_iszero", "gf_sq2", "gf_inv"}

BinaryFns == {"gf12_gf_add", "gf12_gf_mul", "gf12_gf_frac",
              "gf_add", "gf_mul", "gf_sqmul", "gf_sq2mul", "gf_frac"}

NoCount == [n |-> 0]

InitField ==
    /\ pc = "call"
    /\ ret = 0
    /\ cnt = NoCount
    /\ NoArrays
    /\ \/ fn \in UnaryFns /\ in0 \in Operands0 /\ in1 = 0
       \/ fn \in BinaryFns /\ in0 \in Operands0 /\ in1 \in Operands1
       \/ fn = "load_gf" /\ in0 \in {w % 256 : w \in Operands0}
                         /\ in1 \in {w \div 256 : w \in Operands0}

\* the pending call is a call of name
Called(name) == pc = "call" /\ fn = name

\* the call returns v, having executed the operations counted in n
Returns(v, n) ==
    /\ pc' = "ret"
    /\ ret' = v
    /\ cnt' = n
    /\ UNCHANGED <<fn, in0, in1, arrays>>

\* the call returns the value and the counts of the run r
ReturnsRun(r) ==
    \E run \in {r} :
        Returns(run.out, [x \in (DOMAIN run) \ {"out"} |-> run[x]])

\* the counts of a run of gf_mul
MulCount(r) == [iters |-> r.iters, passes |-> r.passes]

Do_load_gf ==
    /\ Called("load_gf")
    /\ Returns(load_gf(<<in0, in1>>), NoCount)

Do_gf12_gf_iszero ==
    /\ Called("gf12_gf_iszero")
    /\ Returns(gf12_gf_iszero(in0), NoCount)

Do_gf12_gf_add ==
    /\ Called("gf12_gf_add")
    /\ Returns(gf12_gf_add(in0, in1), NoCount)

Do_gf12_gf_mul ==
    /\ Called("gf12_gf_mul")
    /\ Returns(gf12_gf_mul(in0, in1), MulCount(gf12_gf_mul_run(in0, in1)))

Do_gf12_gf_sq ==
    /\ Called("gf12_gf_sq")
    /\ Returns(gf12_gf_sq(in0), NoCount)

Do_gf12_gf_inv ==
    /\ Called("gf12_gf_inv")
    /\ ReturnsRun(gf12_gf_inv_run(in0))

Do_gf12_gf_frac ==
    /\ Called("gf12_gf_frac")
    /\ ReturnsRun(gf12_gf_frac_run(in0, in1))

Do_bitrev ==
    /\ Called("bitrev")
    /\ Returns(bitrev(in0), NoCount)

Do_gf_iszero ==
    /\ Called("gf_iszero")
    /\ Returns(gf_iszero(in0), NoCount)

Do_gf_add ==
    /\ Called("gf_add")
    /\ Returns(gf_add(in0, in1), NoCount)

Do_gf_mul ==
    /\ Called("gf_mul")
    /\ Returns(gf_mul(in0, in1), MulCount(gf_mul_run(in0, in1)))

Do_gf_sq2 ==
    /\ Called("gf_sq2")
    /\ Returns(gf_sq2(in0), NoCount)

Do_gf_sqmul ==
    /\ Called("gf_sqmul")
    /\ Returns(gf_sqmul(in0, in1), NoCount)

Do_gf_sq2mul ==
    /\ Called("gf_sq2mul")
    /\ Returns(gf_sq2mul(in0, in1), NoCount)

Do_gf_frac ==
    /\ Called("gf_frac")
    /\ ReturnsRun(gf_frac_run(in0, in1))

Do_gf_inv ==
    /\ Called("gf_inv")
    /\ ReturnsRun(gf_inv_run(in0))

NextField ==
    \/ Do_load_gf
    \/ Do_gf12_gf_iszero
    \/ Do_gf12_gf_add
    \/ Do_gf12_gf_mul
    \/ Do_gf12_gf_sq
    \/ Do_gf12_gf_inv
    \/ Do_gf12_gf_frac
    \/ Do_bitrev
    \/ Do_gf_iszero
    \/ Do_gf_add
    \/ Do_gf_mul
    \/ Do_gf_sq2
    \/ Do_gf_sqmul
    \/ Do_gf_sq2mul
    \/ Do_gf_frac
    \/ Do_gf_inv

SpecField == InitField /\ [][NextField]_vars


(***************************************************************************)
(* gf_iszero of both variants on every u16.                                *)
(***************************************************************************)
InitZero ==
    /\ pc = "call"
    /\ ret = 0
    /\ cnt = NoCount
    /\ NoArrays
    /\ fn \in {"gf12_gf_iszero", "gf_iszero"}
    /\ in0 \in 0..(LIMB - 1)
    /\ in1 = 0

NextZero ==
    \/ Do_gf12_gf_iszero
    \/ Do_gf_iszero

SpecZero == InitZero /\ [][NextZero]_vars

(***************************************************************************)
(* gf_inv of both variants on every element of its field.                  *)
(***************************************************************************)
InitInv ==
    /\ pc = "call"
    /\ ret = 0
    /\ cnt = NoCount
    /\ NoArrays
    /\ in1 = 0
    /\ \/ fn = "gf12_gf_inv" /\ in0 \in 0..GFMASK12
       \/ fn = "gf_inv" /\ in0 \in 0..GFMASK

NextInv ==
    \/ Do_gf12_gf_inv
    \/ Do_gf_inv

SpecInv == InitInv /\ [][NextInv]_vars

(***************************************************************************)
(* root.rs (mceliece348864): polynomial evaluation over GF(2^12).  An      *)
(* array is a function on 0..n-1.                                          *)
(***************************************************************************)
\* the degree of the polynomial and the length of the support, scaled down
SYS_T == 8
SYS_N == 8

\* eval_iter with the two statements exchanged
eval_iter_add_first(st, poly, a, k) ==
    [r |-> Call2(gf12_gf_mul, gf12_gf_add(st.r, poly[k]), a),
     nmul |-> st.nmul + 1, nadd |-> st.nadd + 1]

\* one iteration of the loop of eval: r = gf_mul(r, a); r = gf_add(r, f[k])
eval_iter(st, poly, a, k) ==
    [r |-> gf12_gf_add(Call2(gf12_gf_mul, st.r, a), poly[k]),
     nmul |-> st.nmul + 1, nadd |-> st.nadd + 1]

\* for i in (0..=SYS_T - 1).rev()
RECURSIVE eval_loop(_, _, _, _)
eval_loop(st, poly, a, k) ==
    IF k < 0 THEN st
    ELSE Call3(LAMBDA st2, a2, k2 : eval_loop(st2, poly, a2, k2),
               eval_iter(st, poly, a, k), a, k - 1)

\* eval, with the numbers of calls of gf_mul and gf_add
eval_run(poly, a) ==
    eval_loop([r |-> poly[SYS_T], nmul |-> 0, nadd |-> 0], poly, a, SYS_T - 1)

eval(poly, a) == eval_run(poly, a).r

\* the polynomials root is called with: zero, the one of the unit test
\* (f[i] = 3 i), the monomials, and sampled ones
NumPolys == 3
Polys ==
    {[k \in 0..SYS_T |-> 0], [k \in 0..SYS_T |-> (3 * k) % LIMB]}
    \cup {[k \in 0..SYS_T |-> IF k = d THEN 1 ELSE 0] : d \in 0..SYS_T}
    \cup {[k \in 0..SYS_T |-> Sample(31 * n + k) % 2^GFBITS12] : n \in 1..NumPolys}

\* the supports: the one of the unit test (l[i] = i + 7), one that holds 0,
\* the top of the field, and sampled ones
NumSupports == 2
Supports ==
    {[k \in 0..(SYS_N - 1) |-> k + 7], [k \in 0..(SYS_N - 1) |-> k],
     [k \in 0..(SYS_N - 1) |-> GFMASK12 - k]}
    \cup {[k \in 0..(SYS_N - 1) |-> Sample(17 * n + k) % 2^GFBITS12] :
             n \in 1..NumSupports}

\* the contents of out before the call: the one of the unit test and all ones
PriorOuts ==
    {[k \in 0..(SYS_N - 1) |-> k + 3], [k \in 0..(SYS_N - 1) |-> LIMB - 1]}

InitRoot ==
    /\ fn = "root"
    /\ pc = "loop"
    /\ in0 = 0 /\ in1 = 0 /\ ret = 0
    /\ cnt = NoCount
    /\ f \in Polys
    /\ l \in Supports
    /\ out \in PriorOuts
    /\ prod = 0 /\ s = 0 /\ c = 0 /\ i = 0 /\ j = 0

\* for i in 0..SYS_N { out[i] = eval(f, l[i]); }
root_iter ==
    /\ fn = "root" /\ pc = "loop" /\ i < SYS_N
    /\ \E run \in {eval_run(f, l[i])} :
          /\ out' = [out EXCEPT ![i] = run.r]
          /\ cnt' = [nmul |-> run.nmul, nadd |-> run.nadd]
    /\ i' = i + 1
    /\ UNCHANGED <<fn, pc, in0, in1, ret, f, l, prod, s, c, j>>

root_return ==
    /\ fn = "root" /\ pc = "loop" /\ i >= SYS_N
    /\ pc' = "ret"
    /\ UNCHANGED <<fn, in0, in1, ret, cnt, arrays>>

NextRoot ==
    \/ root_iter
    \/ root_return

SpecRoot == InitRoot /\ [][NextRoot]_vars

(***************************************************************************)
(* Every field function and root: the calls whose operation counts are     *)
(* compared across inputs.                                                 *)
(***************************************************************************)
InitCT == InitField \/ InitRoot

NextCT ==
    \/ NextField
    \/ NextRoot

SpecCT == InitCT /\ [][NextCT]_vars

(***************************************************************************)
(* gf.rs: GF_mul, multiplication in GF((2^13)^SYS_T), the extension by     *)
(* y^SYS_T + y^7 + y^2 + y + 1.                                            *)
(***************************************************************************)
\* prod[k] ^= prod[m]
xor_into(p, k, m) == [p EXCEPT ![k] = Xor(@, p[m])]

\* GF_fold with the tap 3 where the code has the tap 2
GF_fold_tap3(p, m) ==
    xor_into(xor_into(xor_into(xor_into(p, m - SYS_T + 7, m),
                               m - SYS_T + 3, m),
                      m - SYS_T + 1, m),
             m - SYS_T + 0, m)

\* the four statements of the body of the while loop at index m
GF_fold(p, m) ==
    xor_into(xor_into(xor_into(xor_into(p, m - SYS_T + 7, m),
                               m - SYS_T + 2, m),
                      m - SYS_T + 1, m),
             m - SYS_T + 0, m)

\* the elements of GF((2^13)^SYS_T) GF_mul is called with: 0, 1, the
\* monomials y, y^6 and y^(SYS_T-1), the element of all ones, and sampled ones
NumElems == 3
Elems ==
    {[k \in 0..(SYS_T - 1) |-> 0], [k \in 0..(SYS_T - 1) |-> GFMASK]}
    \cup {[k \in 0..(SYS_T - 1) |-> IF k = d THEN 1 ELSE 0] :
             d \in {0, 1, 6, SYS_T - 1}}
    \cup {[k \in 0..(SYS_T - 1) |-> Sample(13 * n + k) % 2^GFBITS] :
             n \in 1..NumElems}

InitGF ==
    /\ fn = "GF_mul"
    /\ pc = "conv"
    /\ in0 \in Elems
    /\ in1 \in Elems
    /\ out \in {[k \in 0..(SYS_T - 1) |-> 0], [k \in 0..(SYS_T - 1) |-> LIMB - 1]}
    /\ prod = [k \in 0..(SYS_T * 2 - 2) |-> 0]
    /\ ret = 0 /\ cnt = NoCount
    /\ f = 0 /\ l = 0 /\ s = 0 /\ c = 0 /\ i = 0 /\ j = 0

\* prod[i + j] ^= gf_mul(in0[i], in1[j]) in for i in 0..SYS_T, for j in
\* 0..SYS_T; after the last one, let mut i = (SYS_T - 1) * 2
GF_mul_conv ==
    /\ fn = "GF_mul" /\ pc = "conv"
    /\ prod' = [prod EXCEPT ![i + j] = Xor(@, gf_mul(in0[i], in1[j]))]
    /\ IF j + 1 < SYS_T THEN i' = i /\ j' = j + 1 /\ pc' = pc
       ELSE IF i + 1 < SYS_T THEN i' = i + 1 /\ j' = 0 /\ pc' = pc
       ELSE i' = (SYS_T - 1) * 2 /\ j' = 0 /\ pc' = "reduce"
    /\ UNCHANGED <<fn, in0, in1, ret, cnt, f, l, out, s, c>>

\* one iteration of while i >= SYS_T; an index outside prod panics
GF_mul_reduce ==
    /\ fn = "GF_mul" /\ pc = "reduce" /\ i >= SYS_T
    /\ IF i - SYS_T + 7 \in DOMAIN prod
       THEN prod' = GF_fold(prod, i) /\ i' = i - 1 /\ pc' = pc
       ELSE pc' = "panic" /\ UNCHANGED <<prod, i>>
    /\ UNCHANGED <<fn, in0, in1, ret, cnt, f, l, out, s, c, j>>

\* the while loop is left; for i in 0..SYS_T begins
GF_mul_reduced ==
    /\ fn = "GF_mul" /\ pc = "reduce" /\ i < SYS_T
    /\ pc' = "copy"
    /\ i' = 0
    /\ UNCHANGED <<fn, in0, in1, ret, cnt, f, l, out, prod, s, c, j>>

\* out[i] = prod[i]
GF_mul_copy ==
    /\ fn = "GF_mul" /\ pc = "copy" /\ i < SYS_T
    /\ out' = [out EXCEPT ![i] = prod[i]]
    /\ i' = i + 1
    /\ UNCHANGED <<fn, pc, in0, in1, ret, cnt, f, l, prod, s, c, j>>

GF_mul_return ==
    /\ fn = "GF_mul" /\ pc = "copy" /\ i >= SYS_T
    /\ pc' = "ret"
    /\ UNCHANGED <<fn, in0, in1, ret, cnt, arrays>>

NextGF ==
    \/ GF_mul_conv
    \/ GF_mul_reduce
    \/ GF_mul_reduced
    \/ GF_mul_copy
    \/ GF_mul_return

SpecGF == InitGF /\ [][NextGF]_vars

(***************************************************************************)
(* benes.rs (internals348864): support_gen.  The table l holds GFBITS      *)
(* planes of (1 << GFBITS) / 8 bytes; bit x of plane k is bit x % 8 of     *)
(* byte x / 8.                                                             *)
(***************************************************************************)
\* (1 << GFBITS) / 8
PlaneBytes == Shl(1, GFBITS12) \div 8

\* bit x of the plane r: (r[x / 8] >> (x % 8)) & 1
PlaneBit(r, x) == Shr(r[x \div 8], x % 8) % 2

\* byte m of plane k after the first loop nest: for the eight x with
\* x / 8 = m, l[k][x / 8] |= ((bitrev(x) >> k) & 1) << (x % 8), from 0
RECURSIVE fill_byte(_, _, _)
fill_byte(k, m, b) ==
    IF b < 0 THEN 0
    ELSE fill_byte(k, m, b - 1) + Shl(Shr(bitrev(8 * m + b), k) % 2, b)

\* the table after the first loop nest
FilledTable ==
    [k \in 0..(GFBITS12 - 1) |-> [m \in 0..(PlaneBytes - 1) |-> fill_byte(k, m, 7)]]

\* The permutation of the 1 << GFBITS bit positions that the Benes network
\* with control bits ctl realises: Src(ctl, x) is the position whose bit the
\* network moves to position x.  Control 0 is the identity network; the
\* others are the reversal, the exchange of neighbours, the exchange of the
\* halves, and affine maps with an odd multiplier.
NumControls == 6
Src(ctl, x) ==
    CASE ctl = 0 -> x
      [] ctl = 1 -> (Shl(1, GFBITS12) - 1) - x
      [] ctl = 2 -> IF x % 2 = 0 THEN x + 1 ELSE x - 1
      [] ctl = 3 -> (x + Shl(1, GFBITS12 - 1)) % Shl(1, GFBITS12)
      [] OTHER -> ((2 * ctl + 1) * x + ctl) % Shl(1, GFBITS12)

RECURSIVE benes_byte(_, _, _, _)
benes_byte(r, ctl, m, b) ==
    IF b < 0 THEN 0
    ELSE benes_byte(r, ctl, m, b - 1) + Shl(PlaneBit(r, Src(ctl, 8 * m + b)), b)

\* apply_benes_gf12(r, c, 0): the plane r permuted in place
apply_benes_gf12(r, ctl, rev) ==
    [m \in 0..(PlaneBytes - 1) |-> benes_byte(r, ctl, m, 7)]

\* extract_loop that reads the planes from 0 upwards
RECURSIVE extract_loop_ascending(_, _, _, _)
extract_loop_ascending(acc, tbl, x, k) ==
    IF k < 0 THEN acc
    ELSE extract_loop_ascending(
             Or(Shl(acc, 1) % LIMB, PlaneBit(tbl[GFBITS12 - 1 - k], x)),
             tbl, x, k - 1)

\* for j in (0..=(GFBITS - 1)).rev() { s[i] <<= 1; s[i] |= bit i of l[j] }
RECURSIVE extract_loop(_, _, _, _)
extract_loop(acc, tbl, x, k) ==
    IF k < 0 THEN acc
    ELSE extract_loop(Or(Shl(acc, 1) % LIMB, PlaneBit(tbl[k], x)), tbl, x, k - 1)

InitSupport ==
    /\ fn = "support_gen"
    /\ pc = "fill"
    /\ s \in {[k \in 0..(SYS_N - 1) |-> 0], [k \in 0..(SYS_N - 1) |-> LIMB - 1]}
    /\ c \in 0..(NumControls - 1)
    /\ l = [k \in 0..(GFBITS12 - 1) |-> [m \in 0..(PlaneBytes - 1) |-> 0]]
    /\ in0 = 0 /\ in1 = 0 /\ ret = 0 /\ cnt = NoCount
    /\ f = 0 /\ out = 0 /\ prod = 0 /\ i = 0 /\ j = 0

\* the first loop nest
support_gen_fill ==
    /\ fn = "support_gen" /\ pc = "fill"
    /\ l' = FilledTable
    /\ pc' = "benes"
    /\ j' = 0
    /\ UNCHANGED <<fn, in0, in1, ret, cnt, f, out, prod, s, c, i>>

\* for j in 0..GFBITS { apply_benes_gf12(&mut l[j], c, 0); }
support_gen_benes ==
    /\ fn = "support_gen" /\ pc = "benes" /\ j < GFBITS12
    /\ l' = [l EXCEPT ![j] = apply_benes_gf12(@, c, 0)]
    /\ j' = j + 1
    /\ UNCHANGED <<fn, pc, in0, in1, ret, cnt, f, out, prod, s, c, i>>

support_gen_permuted ==
    /\ fn = "support_gen" /\ pc = "benes" /\ j >= GFBITS12
    /\ pc' = "extract"
    /\ i' = 0
    /\ UNCHANGED <<fn, in0, in1, ret, cnt, f, l, out, prod, s, c, j>>

\* for i in 0..SYS_N { s[i] = 0; ... }
support_gen_extract ==
    /\ fn = "support_gen" /\ pc = "extract" /\ i < SYS_N
    /\ s' = [s EXCEPT ![i] = extract_loop(0, l, i, GFBITS12 - 1)]
    /\ i' = i + 1
    /\ UNCHANGED <<fn, pc, in0, in1, ret, cnt, f, l, out, prod, c, j>>

support_gen_return ==
    /\ fn = "support_gen" /\ pc = "extract" /\ i >= SYS_N
    /\ pc' = "ret"
    /\ UNCHANGED <<fn, in0, in1, ret, cnt, arrays>>

NextSupport ==
    \/ support_gen_fill
    \/ support_gen_benes
    \/ support_gen_permuted
    \/ support_gen_extract
    \/ support_gen_return

SpecSupport == InitSupport /\ [][NextSupport]_vars

(***************************************************************************)
(* Reference arithmetic: polynomials over GF(2) as integers, bit i the     *)
(* coefficient of x^i.                                                     *)
(***************************************************************************)
\* the carry-less product of a and b
RECURSIVE ClMul(_, _)
ClMul(a, b) ==
    IF b = 0 THEN 0
    ELSE Xor(IF b % 2 = 1 THEN a ELSE 0, 2 * ClMul(a, b \div 2))

\* p with its terms of degree k down to m removed by multiples of poly, a
\* polynomial of degree m
RECURSIVE PolyMod(_, _, _, _)
PolyMod(p, poly, m, k) ==
    IF k < m THEN p
    ELSE PolyMod(IF (p \div 2^k) % 2 = 1 THEN Xor(p, poly * 2^(k - m)) ELSE p,
                 poly, m, k - 1)

\* x^12 + x^3 + 1 and x^13 + x^4 + x^3 + x + 1
Poly12 == 2^12 + 2^3 + 1
Poly13 == 2^13 + 2^4 + 2^3 + 2 + 1

RefMul12(a, b) == PolyMod(Call2(ClMul, a, b), Poly12, GFBITS12, 2 * GFBITS12 - 2)
RefMul13(a, b) == PolyMod(Call2(ClMul, a, b), Poly13, GFBITS, 2 * GFBITS - 2)

\* the functions of gf12.rs, and the field mask of the variant of fn
Fns12 == {"load_gf", "gf12_gf_iszero", "gf12_gf_add", "gf12_gf_mul",
          "gf12_gf_sq", "gf12_gf_inv", "gf12_gf_frac", "bitrev"}
MaskOf(name) == IF name \in Fns12 THEN GFMASK12 ELSE GFMASK

\* the call has returned
Returned(name) == pc = "ret" /\ fn = name

\* both operands of the call are field elements of the variant of fn
InField == in0 <= MaskOf(fn) /\ in1 <= MaskOf(fn)

(***************************************************************************)
(* C1: in both variants gf_mul(a, gf_inv(a)) = 1 for every nonzero field   *)
(* element a, and gf_inv(0) = 0.                                           *)
(***************************************************************************)
C1_InverseLaw ==
    /\ Returned("gf12_gf_inv") =>
          IF in0 = 0 THEN ret = 0 ELSE gf12_gf_mul(in0, ret) = 1
    /\ Returned("gf_inv") =>
          IF in0 = 0 THEN ret = 0 ELSE gf_mul(in0, ret) = 1

C1_Witness ==
    \/ Returned("gf_inv") /\ in0 = GFMASK /\ gf_mul(in0, ret) = 1
    \/ Returned("gf12_gf_inv") /\ in0 = 2 /\ ret = 2052

(***************************************************************************)
(* C2, as claimed: every field operation returns a value <= GFMASK of its  *)
(* variant for every u16 input.                                            *)
(***************************************************************************)
C2_Original == pc = "ret" => ret <= MaskOf(fn)

(***************************************************************************)
(* C2, amended: gf_mul, gf_sq, gf_sq2, gf_sqmul, gf_sq2mul, gf_inv,        *)
(* gf_frac, bitrev and load_gf return a value <= GFMASK of their variant   *)
(* for every u16 input; gf_add returns in0 ^ in1 unmasked, which is        *)
(* <= GFMASK when both inputs are; gf_iszero returns 0 or 8191 in both     *)
(* variants (8191 exceeds the 12-bit mask 4095).                           *)
(***************************************************************************)
C2_Masking ==
    pc = "ret" /\ fn \in UnaryFns \cup BinaryFns \cup {"load_gf"} =>
        CASE fn \in {"gf12_gf_add", "gf_add"} ->
                (InField => ret <= MaskOf(fn))
          [] fn \in {"gf12_gf_iszero", "gf_iszero"} ->
                ret \in {0, 8191}
          [] OTHER -> ret <= MaskOf(fn)

C2_Witness ==
    \/ Returned("gf12_gf_mul") /\ in0 = 65535 /\ in1 = 65535 /\ ret <= GFMASK12
    \/ Returned("gf_sq2mul") /\ in0 = 65535 /\ in1 = 65535 /\ ret <= GFMASK

(***************************************************************************)
(* C3: for field elements a, b, gf_mul(a, b) is the carry-less product of  *)
(* a and b reduced modulo the field polynomial of the variant; gf_mul is   *)
(* commutative, gf_mul(a, 1) = a and gf_mul(a, 0) = 0.                     *)
(***************************************************************************)
C3_MulIsFieldProduct ==
    /\ Returned("gf12_gf_mul") /\ InField =>
          /\ ret = RefMul12(in0, in1)
          /\ ret = gf12_gf_mul(in1, in0)
          /\ in1 = 1 => ret = in0
          /\ in1 = 0 => ret = 0
    /\ Returned("gf_mul") /\ InField =>
          /\ ret = RefMul13(in0, in1)
          /\ ret = gf_mul(in1, in0)
          /\ in1 = 1 => ret = in0
          /\ in1 = 0 => ret = 0

C3_Witness ==
    \/ Returned("gf12_gf_mul") /\ in0 = 125 /\ in1 = 19 /\ ret = 1879
    \/ Returned("gf_mul") /\ in0 = 8191 /\ in1 = 8191 /\ ret = RefMul13(8191, 8191)

(***************************************************************************)
(* C4: in both variants gf_frac(den, num) = gf_mul(gf_inv(den), num) for   *)
(* field elements den, num, and gf_frac(0, num) = 0.                       *)
(***************************************************************************)
C4_FracIsMulInv ==
    /\ Returned("gf12_gf_frac") /\ InField =>
          /\ ret = gf12_gf_mul(gf12_gf_inv(in0), in1)
          /\ in0 = 0 => ret = 0
    /\ Returned("gf_frac") /\ InField =>
          /\ ret = gf_mul(gf_inv(in0), in1)
          /\ in0 = 0 => ret = 0

C4_Witness ==
    \/ Returned("gf_frac") /\ in0 = 5 /\ in1 = 19 /\ ret = gf_mul(5467, 19)
    \/ Returned("gf12_gf_frac") /\ in0 = 0 /\ in1 = 4095 /\ ret = 0

(***************************************************************************)
(* C6: gf_iszero(0) = 8191 and gf_iszero(a) = 0 for every nonzero u16 a,   *)
(* in both variants.                                                       *)
(***************************************************************************)
C6_IsZero ==
    pc = "ret" /\ fn \in {"gf12_gf_iszero", "gf_iszero"} =>
        ret = IF in0 = 0 THEN 8191 ELSE 0

C6_Witness ==
    \/ Returned("gf_iszero") /\ in0 = 65535 /\ ret = 0
    \/ Returned("gf12_gf_iszero") /\ in0 = 0 /\ ret = 8191

(***************************************************************************)
(* C8: for field elements a, m: gf12 gf_sq(a) = gf_mul(a, a); in gf.rs     *)
(* gf_sq2(a) = gf_mul(gf_mul(a, a), gf_mul(a, a)),                         *)
(* gf_sqmul(a, m) = gf_mul(gf_mul(a, a), m) and                            *)
(* gf_sq2mul(a, m) = gf_mul(gf_sq2(a), m).                                 *)
(***************************************************************************)
C8_FastPaths ==
    /\ Returned("gf12_gf_sq") /\ InField => ret = gf12_gf_mul(in0, in0)
    /\ Returned("gf_sq2") /\ InField =>
          ret = gf_mul(gf_mul(in0, in0), gf_mul(in0, in0))
    /\ Returned("gf_sqmul") /\ InField => ret = gf_mul(gf_mul(in0, in0), in1)
    /\ Returned("gf_sq2mul") /\ InField => ret = gf_mul(gf_sq2(in0), in1)

C8_Witness ==
    \/ Returned("gf_sq2mul") /\ in0 = 8191 /\ in1 = 8191
                             /\ ret = gf_mul(gf_sq2(8191), 8191)
    \/ Returned("gf12_gf_sq") /\ in0 = 4095 /\ ret = 2746

(***************************************************************************)
(* Reference evaluation: the sum over k of f[k] a^k in GF(2^12).           *)
(***************************************************************************)
RECURSIVE Pow12(_, _)
Pow12(a, k) == IF k = 0 THEN 1 ELSE Call2(RefMul12, Pow12(a, k - 1), a)

RECURSIVE DirectSum(_, _, _)
DirectSum(poly, a, k) ==
    IF k < 0 THEN 0
    ELSE Xor(RefMul12(poly[k], Pow12(a, k)), DirectSum(poly, a, k - 1))

(***************************************************************************)
(* C5: after root(out, f, l), whatever out held before, out[k] is          *)
(* eval(f, l[k]) for every k < SYS_N, and that is the sum of f[m] l[k]^m   *)
(* over m <= SYS_T in GF(2^12); the zero polynomial evaluates to 0 and     *)
(* the point 0 evaluates to f[0].                                          *)
(***************************************************************************)
C5_RootIsEval ==
    Returned("root") =>
        \A k \in 0..(SYS_N - 1) :
            /\ out[k] = eval(f, l[k])
            /\ out[k] = DirectSum(f, l[k], SYS_T)
            /\ (\A m \in 0..SYS_T : f[m] = 0) => out[k] = 0
            /\ l[k] = 0 => out[k] = f[0]

C5_Witness ==
    /\ Returned("root")
    /\ f = [k \in 0..SYS_T |-> (3 * k) % LIMB]
    /\ l = [k \in 0..(SYS_N - 1) |-> k]
    /\ out[0] = 0 /\ out[1] # 4 /\ out[1] = DirectSum(f, 1, SYS_T)

(***************************************************************************)
(* C7: the numbers of operations a call executes do not depend on the      *)
(* values of its inputs: gf_mul runs GFBITS - 1 iterations after the one   *)
(* for bit 0 and two reduction passes, gf_inv and gf_frac run a fixed      *)
(* chain of squarings and multiplications, and eval calls gf_mul SYS_T     *)
(* times and gf_add SYS_T times.                                           *)
(***************************************************************************)
C7_FixedCounts ==
    /\ Returned("gf12_gf_mul") => cnt = [iters |-> GFBITS12 - 1, passes |-> 2]
    /\ Returned("gf_mul") => cnt = [iters |-> GFBITS - 1, passes |-> 2]
    /\ Returned("gf12_gf_inv") => cnt = [nsq |-> 11, nmul |-> 5]
    /\ Returned("gf12_gf_frac") => cnt = [nsq |-> 11, nmul |-> 6]
    /\ Returned("gf_frac") => cnt = [nsq2 |-> 2, nmul |-> 5]
    /\ Returned("gf_inv") => cnt = [nsq2 |-> 2, nmul |-> 5]
    /\ fn = "root" /\ i > 0 => cnt = [nmul |-> SYS_T, nadd |-> SYS_T]

C7_Witness ==
    \/ Returned("gf_mul") /\ in0 = 0 /\ in1 = 0 /\ cnt.iters = GFBITS - 1
    \/ Returned("root") /\ (\A m \in 0..SYS_T : f[m] = 0) /\ cnt.nmul = SYS_T

(***************************************************************************)
(* Reference multiplication in GF((2^13)^SYS_T): Horner's scheme in y,     *)
(* reducing by y^SYS_T = y^7 + y^2 + y + 1 after every multiplication by y.*)
(***************************************************************************)
ReductionTaps == {7, 2, 1, 0}

\* p times y
RefMulY(p) ==
    [k \in 0..(SYS_T - 1) |->
        Xor(IF k = 0 THEN 0 ELSE p[k - 1],
            IF k \in ReductionTaps THEN p[SYS_T - 1] ELSE 0)]

\* p + b q for b in GF(2^13)
RefAxpy(p, b, q) == [k \in 0..(SYS_T - 1) |-> Xor(p[k], RefMul13(b, q[k]))]

RECURSIVE RefGFmulFrom(_, _, _)
RefGFmulFrom(x, y, k) ==
    IF k = SYS_T - 1 THEN RefAxpy([m \in 0..(SYS_T - 1) |-> 0], y[k], x)
    ELSE Call1(LAMBDA q : RefAxpy(RefMulY(q), y[k], x),
               RefGFmulFrom(x, y, k + 1))

RefGFmul(x, y) == RefGFmulFrom(x, y, 0)

\* coefficient k of the product of x and y as polynomials in y
RECURSIVE ConvSum(_, _, _, _)
ConvSum(x, y, k, a) ==
    IF a < 0 THEN 0
    ELSE Xor(IF k - a \in 0..(SYS_T - 1) THEN RefMul13(x[a], y[k - a]) ELSE 0,
             ConvSum(x, y, k, a - 1))

(***************************************************************************)
(* C9: GF_mul(out, in0, in1) forms the schoolbook product of in0 and in1   *)
(* in a buffer of 2 SYS_T - 1 coefficients, folds coefficient i for i from *)
(* 2 SYS_T - 2 down to SYS_T into the coefficients i - SYS_T + 7, + 2, + 1 *)
(* and + 0, and copies the low SYS_T coefficients to out, which is then    *)
(* the product modulo y^SYS_T + y^7 + y^2 + y + 1; every index stays       *)
(* within 0..2 SYS_T - 2, the descending loop ends at i = SYS_T - 1, and   *)
(* in0 and in1 are not modified.                                           *)
(***************************************************************************)
C9_GFmul ==
    /\ [](fn = "GF_mul" =>
            /\ pc # "panic"
            /\ DOMAIN prod = 0..(2 * SYS_T - 2)
            /\ pc = "reduce" => i \in (SYS_T - 1)..(2 * SYS_T - 2)
            /\ pc = "reduce" /\ i = 2 * SYS_T - 2 =>
                  \A k \in DOMAIN prod : prod[k] = ConvSum(in0, in1, k, SYS_T - 1)
            /\ pc = "ret" => out = RefGFmul(in0, in1))
    /\ [][fn = "GF_mul" => in0' = in0 /\ in1' = in1]_vars

C9_Witness ==
    /\ Returned("GF_mul")
    /\ in0 = [k \in 0..(SYS_T - 1) |-> IF k = SYS_T - 1 THEN 1 ELSE 0]
    /\ in1 = in0
    /\ out = RefGFmul(in0, in1)
    /\ \E k \in 0..(SYS_T - 1) : out[k] # 0

\* the reversal of the bits 0..k of x within 12 bits
RECURSIVE RefRev12(_, _)
RefRev12(x, k) ==
    IF k < 0 THEN 0
    ELSE ((x \div 2^k) % 2) * 2^(GFBITS12 - 1 - k) + RefRev12(x, k - 1)

(***************************************************************************)
(* C10: with apply_benes_gf12 a fixed permutation of the bit positions of  *)
(* a plane, after support_gen(s, c) every s[m], m < SYS_N, is bitrev(k)    *)
(* for the position k whose bit the network moves to m, whatever s held    *)
(* before; the s[m] are below 2^GFBITS and pairwise distinct; the identity *)
(* network gives s[m] = bitrev(m); and bitrev is an involution on 12-bit   *)
(* values.                                                                 *)
(***************************************************************************)
C10_SupportGen ==
    Returned("support_gen") =>
        /\ \A m \in 0..(SYS_N - 1) :
              /\ \A k \in 0..(GFBITS12 - 1) :
                    (s[m] \div 2^k) % 2 = PlaneBit(l[k], m)
              /\ s[m] = bitrev(Src(c, m))
              /\ s[m] < 2^GFBITS12
              /\ c = 0 => s[m] = bitrev(m)
        /\ \A m, n \in 0..(SYS_N - 1) : m # n => s[m] # s[n]
        /\ \A x \in 0..GFMASK12 :
              /\ bitrev(x) = RefRev12(x, GFBITS12 - 1)
              /\ bitrev(bitrev(x)) = x

C10_Witness ==
    /\ Returned("support_gen")
    /\ c = 1
    /\ s[0] = GFMASK12 /\ s[1] = 2047 /\ s[2] = 3071

=============================================================================
